---- MODULE Spec2Model ----
(***************************************************************************)
(* A model of the Digraph class template of Directed_Graph.hpp: the        *)
(* adjacency-list store (std::map<int, DigraphVertex>, each vertex holding *)
(* a std::list of outgoing DigraphEdge), its four mutators, and the two    *)
(* read-only algorithms isStronglyConnected and findShortestPaths.         *)
(*                                                                         *)
(* Edge weights are real numbers in the source (edgeWeightFunc returns a   *)
(* double).  The model counts weights in halves: an EdgeInfo payload e     *)
(* stands for the weight e/2, so the conversion of a double distance to    *)
(* the int cells of dv (line 497) is a real truncation in the model.       *)
(***************************************************************************)
EXTENDS Integers, Sequences, FiniteSets, TLC

VARIABLES
    graph,        \* std::map<int, DigraphVertex<VertexInfo, EdgeInfo>> graph
    call,         \* the member function last called
    thrown,       \* what that call threw: "none" or the exception
    terminated,   \* TRUE once a checked build has aborted the process
    vtype,        \* the VertexInfo template argument: "int" or "bool"
    pc,           \* position inside findShortestPaths / isStronglyConnected
    startVertex,  \* findShortestPaths: argument
    kv,           \* findShortestPaths: std::vector<bool> kv
    pv,           \* findShortestPaths: std::map<int, int> pv
    dv,           \* findShortestPaths: std::vector<int> dv
    pq,           \* findShortestPaths: the priority queue's entries
    vertex,       \* findShortestPaths: int vertex, the entry being expanded
    j,            \* findShortestPaths: position of iterator j in vertex's edge list
    tracker,      \* isStronglyConnected: std::vector<int> tracker of the last traversal
    scan,         \* isStronglyConnected: keys the outer loop has still to visit
    connected,    \* isStronglyConnected: "unknown" until it returns, then TRUE/FALSE
    stack,        \* depthFirst: the activations of depthFirst, the innermost last
    dgraph,       \* d.graph, the graph member of a second Digraph object d
    result,       \* what the last call returned, "void" if nothing
    hashTable,    \* HashSet: Node** hashTable, cell i holding its list head first
    sz,           \* HashSet: unsigned int sz
    capacity,     \* HashSet: unsigned int capacity
    added,        \* the elements add has been called with so far
    avlSet,       \* an AVLSet object: its members root, sz and isBalancing
    avlOther,     \* a second AVLSet object, the s of the move operations
    avlAdded      \* the elements avlSet's add has returned from

storeVars == <<graph, call, thrown, terminated>>
spVars    == <<startVertex, kv, pv, dv, pq, vertex, j>>
scVars    == <<tracker, scan, connected, stack>>
objVars   == <<dgraph, result>>
hashVars  == <<hashTable, sz, capacity, added>>
avlVars   == <<avlSet, avlOther, avlAdded>>
digraphVars == <<graph, terminated, vtype, pc, startVertex, kv, pv, dv, pq, vertex, j,
                 tracker, scan, connected, stack, dgraph>>
vars      == <<graph, call, thrown, terminated, vtype, pc,
               startVertex, kv, pv, dv, pq, vertex, j, tracker, scan, connected,
               stack, dgraph, result, hashTable, sz, capacity, added,
               avlSet, avlOther, avlAdded>>

----------------------------------------------------------------------------
(* Bounds of the model *)

MaxEdges == 3       \* the store holds at most this many edges
StoreKeys == {1, 2, 3}
VertexInfos == {0, 1}
StoreVertexInfos == {0}     \* payloads of the vertices the store accepts
EdgeInfos == {0, 1, 2}      \* weights 0, 0.5 and 1
StoreEdgeInfos == {1, 2}

----------------------------------------------------------------------------
(* Exceptions. DigraphException carries only its reason text. *)

NoThrow == "none"
VertexMissing == "Vertex does not exist!"
VerticesMissing == "Vertice(s) do not exist!"
EdgeMissing == "Edge does not exist!"
VertexExists == "Vertex already exists!"
EdgeExists == "Edge already exists!"
OutOfRange == "std::out_of_range"

NoResult == "void"          \* what a call returns that returns nothing

DigraphException == {VertexMissing, VerticesMissing, EdgeMissing, VertexExists, EdgeExists}

\* The error kinds of the documentation, as sets of what the code throws.
VertexNotFound == {VertexMissing, VerticesMissing}
EdgeNotFound == {EdgeMissing}
VertexAlreadyExists == {VertexExists}
EdgeAlreadyExists == {EdgeExists}

----------------------------------------------------------------------------
(* Helpers on sequences and maps *)

RemoveAt(s, k) == [i \in 1..(Len(s) - 1) |-> IF i < k THEN s[i] ELSE s[i + 1]]

Min(S) == CHOOSE x \in S : \A y \in S : x <= y

\* the keys of a std::map in iteration order
RECURSIVE KeysInOrder(_)
KeysInOrder(S) == IF S = {} THEN <<>> ELSE <<Min(S)>> \o KeysInOrder(S \ {Min(S)})

EmptyGraph == [i \in {} |-> 0]

----------------------------------------------------------------------------
(* Read-only members *)

vertices(g) == KeysInOrder(DOMAIN g)

RECURSIVE edgesFrom(_, _)
edgesFrom(g, ks) ==
    IF ks = <<>> THEN <<>>
    ELSE [k \in 1..Len(g[Head(ks)].edges) |->
             <<g[Head(ks)].edges[k].fromVertex, g[Head(ks)].edges[k].toVertex>>]
         \o edgesFrom(g, Tail(ks))

edges(g) == edgesFrom(g, vertices(g))

vertexCountIsLargestKey(g) ==
    IF DOMAIN g = {} THEN 0 ELSE CHOOSE x \in DOMAIN g : \A y \in DOMAIN g : y <= x

vertexCount(g) == Cardinality(DOMAIN g)

RECURSIVE edgeCountFrom(_, _)
edgeCountFrom(g, ks) ==
    IF ks = <<>> THEN 0 ELSE Len(g[Head(ks)].edges) + edgeCountFrom(g, Tail(ks))

edgeCount(g) == edgeCountFrom(g, vertices(g))

----------------------------------------------------------------------------
(* edgeCount(int vertex) (lines 371-393) *)

edgeCountOfVertex(g, v) ==
    IF v \notin DOMAIN g
    THEN [result |-> NoResult, thrown |-> VertexMissing]
    ELSE [result |-> Len(g[v].edges), thrown |-> NoThrow]

(* edgeInfo (lines 211-235): the payload of the first edge from -> to *)

edgeInfoChecksSourceOnly(g, from, to) ==
    IF from \notin DOMAIN g
    THEN [result |-> NoResult, thrown |-> VerticesMissing]
    ELSE LET hits == {k \in 1..Len(g[from].edges) : g[from].edges[k].toVertex = to}
         IN  IF hits = {}
             THEN [result |-> NoResult, thrown |-> EdgeMissing]
             ELSE [result |-> g[from].edges[Min(hits)].einfo, thrown |-> NoThrow]

edgeInfo(g, from, to) ==
    IF from \notin DOMAIN g \/ to \notin DOMAIN g
    THEN [result |-> NoResult, thrown |-> VerticesMissing]
    ELSE LET hits == {k \in 1..Len(g[from].edges) : g[from].edges[k].toVertex = to}
         IN  IF hits = {}
             THEN [result |-> NoResult, thrown |-> EdgeMissing]
             ELSE [result |-> g[from].edges[Min(hits)].einfo, thrown |-> NoThrow]

----------------------------------------------------------------------------
(* addVertex *)

addVertexOverwrites(g, v, vinfo) ==
    [graph |-> [i \in DOMAIN g \cup {v} |->
                   IF i = v THEN [vinfo |-> vinfo, edges |-> <<>>] ELSE g[i]],
     thrown |-> IF v \in DOMAIN g THEN VertexExists ELSE NoThrow]

addVertex(g, v, vinfo) ==
    IF \E i \in DOMAIN g : i = v
    THEN [graph |-> g, thrown |-> VertexExists]
    ELSE [graph |-> [i \in DOMAIN g \cup {v} |->
                        IF i = v THEN [vinfo |-> vinfo, edges |-> <<>>] ELSE g[i]],
          thrown |-> NoThrow]

(* addEdge *)

addEdgeNoDuplicateCheck(g, from, to, einfo) ==
    IF from \notin DOMAIN g \/ to \notin DOMAIN g
    THEN [graph |-> g, thrown |-> VerticesMissing]
    ELSE [graph |-> [g EXCEPT ![from].edges =
                        Append(@, [fromVertex |-> from, toVertex |-> to, einfo |-> einfo])],
          thrown |-> NoThrow]

addEdgeChecksDestinationLast(g, from, to, einfo) ==
    IF from \notin DOMAIN g
    THEN [graph |-> g, thrown |-> VerticesMissing]
    ELSE IF \E k \in 1..Len(g[from].edges) : g[from].edges[k].toVertex = to
    THEN [graph |-> g, thrown |-> EdgeExists]
    ELSE [graph |-> [g EXCEPT ![from].edges =
                        Append(@, [fromVertex |-> from, toVertex |-> to, einfo |-> einfo])],
          thrown |-> IF to \notin DOMAIN g THEN VerticesMissing ELSE NoThrow]

addEdge(g, from, to, einfo) ==
    IF from \notin DOMAIN g \/ to \notin DOMAIN g
    THEN [graph |-> g, thrown |-> VerticesMissing]
    ELSE IF \E k \in 1..Len(g[from].edges) : g[from].edges[k].toVertex = to
    THEN [graph |-> g, thrown |-> EdgeExists]
    ELSE [graph |-> [g EXCEPT ![from].edges =
                        Append(@, [fromVertex |-> from, toVertex |-> to, einfo |-> einfo])],
          thrown |-> NoThrow]

----------------------------------------------------------------------------
(* The erase loop shared by removeVertex (lines 301-308) and removeEdge    *)
(* (lines 328-336):                                                        *)
(*     for(j = begin; j != end; ++j) if(j->toVertex == to) j = erase(j);   *)
(* k is the position of iterator j, Len(es) + 1 standing for end().        *)
(* erase returns the iterator after the erased element and the loop then   *)
(* increments it once more.  When the erased element was the last one the  *)
(* increment is applied to end(), which is undefined: an unchecked build   *)
(* follows the list's sentinel node to begin() and goes on, a checked      *)
(* build aborts.  The result carries the list as the unchecked build       *)
(* leaves it (edges), whether an element was erased, whether end() was     *)
(* incremented (ub), and the list at the first such increment (atUB).      *)

RECURSIVE eraseLoopNeverErases(_, _, _, _)
eraseLoopNeverErases(es, k, to, acc) ==
    IF k > Len(es) THEN [acc EXCEPT !.edges = es]
    ELSE eraseLoopNeverErases(es, k + 1, to, acc)

RECURSIVE eraseLoop(_, _, _, _)
eraseLoop(es, k, to, acc) ==
    IF k > Len(es)
    THEN [acc EXCEPT !.edges = es]
    ELSE IF es[k].toVertex = to
    THEN LET rest == RemoveAt(es, k)
         IN  IF k > Len(rest)
             THEN eraseLoop(rest, 1, to,
                      [acc EXCEPT !.erased = TRUE, !.ub = TRUE,
                                  !.atUB = IF acc.ub THEN acc.atUB ELSE rest])
             ELSE eraseLoop(rest, k + 1, to, [acc EXCEPT !.erased = TRUE])
    ELSE eraseLoop(es, k + 1, to, acc)

eraseAll(es, to) ==
    eraseLoop(es, 1, to, [edges |-> es, erased |-> FALSE, ub |-> FALSE, atUB |-> es])

(* removeVertex.  ubGraph is the store at the moment a checked build       *)
(* aborts: the lists before the offending one are swept, the later ones    *)
(* untouched, and the vertex itself is still in the map.                   *)

removeVertexKeepsIncoming(g, v) ==
    IF v \notin DOMAIN g
    THEN [graph |-> g, thrown |-> VertexMissing, ub |-> FALSE, ubGraph |-> g]
    ELSE [graph |-> [i \in DOMAIN g \ {v} |-> g[i]], thrown |-> NoThrow,
          ub |-> FALSE, ubGraph |-> g]

removeVertex(g, v) ==
    IF v \notin DOMAIN g
    THEN [graph |-> g, thrown |-> VertexMissing, ub |-> FALSE, ubGraph |-> g]
    ELSE LET swept == [i \in DOMAIN g |->
                          eraseAll(IF i = v THEN <<>> ELSE g[i].edges, v)]
             hit == {i \in DOMAIN g : swept[i].ub}
         IN  [graph |-> [i \in DOMAIN g \ {v} |->
                            [vinfo |-> g[i].vinfo, edges |-> swept[i].edges]],
              thrown |-> NoThrow,
              ub |-> hit # {},
              ubGraph |-> IF hit = {} THEN g
                          ELSE [i \in DOMAIN g |->
                                   [vinfo |-> g[i].vinfo,
                                    edges |-> IF i < Min(hit) THEN swept[i].edges
                                              ELSE IF i = Min(hit) THEN swept[i].atUB
                                              ELSE g[i].edges]]]

(* removeEdge *)

removeEdgeErasesTail(g, from, to) ==
    IF from \notin DOMAIN g \/ to \notin DOMAIN g
    THEN [graph |-> g, thrown |-> VerticesMissing, ub |-> FALSE, ubGraph |-> g]
    ELSE LET hits == {k \in 1..Len(g[from].edges) : g[from].edges[k].toVertex = to}
         IN  IF hits = {}
             THEN [graph |-> g, thrown |-> EdgeMissing, ub |-> FALSE, ubGraph |-> g]
             ELSE [graph |-> [g EXCEPT ![from].edges = SubSeq(@, 1, Min(hits) - 1)],
                   thrown |-> NoThrow, ub |-> FALSE, ubGraph |-> g]

removeEdge(g, from, to) ==
    IF from \notin DOMAIN g \/ to \notin DOMAIN g
    THEN [graph |-> g, thrown |-> VerticesMissing, ub |-> FALSE, ubGraph |-> g]
    ELSE LET r == eraseAll(g[from].edges, to)
         IN  [graph |-> [g EXCEPT ![from].edges = r.edges],
              thrown |-> IF r.erased THEN NoThrow ELSE EdgeMissing,
              ub |-> r.ub,
              ubGraph |-> [g EXCEPT ![from].edges = r.atUB]]

----------------------------------------------------------------------------
(* The store's actions: one call of a mutator each. *)

Idle == pc = "idle" /\ ~terminated

\* a call either returns or throws, or (after incrementing end()) aborts
Outcome(r) ==
    \/ /\ graph' = r.graph
       /\ thrown' = r.thrown
       /\ terminated' = FALSE
    \/ /\ r.ub
       /\ graph' = r.ubGraph
       /\ thrown' = NoThrow
       /\ terminated' = TRUE

AddVertex(v, vinfo) ==
    /\ Idle
    /\ LET r == addVertex(graph, v, vinfo)
       IN  graph' = r.graph /\ thrown' = r.thrown
    /\ call' = "addVertex"
    /\ result' = NoResult
    /\ UNCHANGED <<terminated, vtype, hashVars, avlVars, dgraph, pc, spVars, scVars>>

AddEdge(from, to, einfo) ==
    /\ Idle
    /\ LET r == addEdge(graph, from, to, einfo)
       IN  /\ r.thrown # NoThrow \/ edgeCount(graph) < MaxEdges
           /\ graph' = r.graph /\ thrown' = r.thrown
    /\ call' = "addEdge"
    /\ result' = NoResult
    /\ UNCHANGED <<terminated, vtype, hashVars, avlVars, dgraph, pc, spVars, scVars>>

RemoveVertex(v) ==
    /\ Idle
    /\ Outcome(removeVertex(graph, v))
    /\ call' = "removeVertex"
    /\ result' = NoResult
    /\ UNCHANGED <<vtype, hashVars, avlVars, dgraph, pc, spVars, scVars>>

RemoveEdge(from, to) ==
    /\ Idle
    /\ Outcome(removeEdge(graph, from, to))
    /\ call' = "removeEdge"
    /\ result' = NoResult
    /\ UNCHANGED <<vtype, hashVars, avlVars, dgraph, pc, spVars, scVars>>

EdgeInfo(from, to) ==
    /\ Idle
    /\ LET r == edgeInfo(graph, from, to)
       IN  result' = r.result /\ thrown' = r.thrown
    /\ call' = "edgeInfo"
    /\ UNCHANGED <<graph, terminated, vtype, hashVars, avlVars, dgraph, pc, spVars, scVars>>

VertexCount ==
    /\ Idle
    /\ result' = vertexCount(graph)
    /\ thrown' = NoThrow
    /\ call' = "vertexCount"
    /\ UNCHANGED <<graph, terminated, vtype, hashVars, avlVars, dgraph, pc, spVars, scVars>>

EdgeCount ==
    /\ Idle
    /\ result' = edgeCount(graph)
    /\ thrown' = NoThrow
    /\ call' = "edgeCount"
    /\ UNCHANGED <<graph, terminated, vtype, hashVars, avlVars, dgraph, pc, spVars, scVars>>

EdgeCountOfVertex(v) ==
    /\ Idle
    /\ LET r == edgeCountOfVertex(graph, v)
       IN  result' = r.result /\ thrown' = r.thrown
    /\ call' = "edgeCount(int)"
    /\ UNCHANGED <<graph, terminated, vtype, hashVars, avlVars, dgraph, pc, spVars, scVars>>

----------------------------------------------------------------------------
(* Copying and moving (lines 92-135).  An operator takes the graph member  *)
(* of the object it runs on (g) and that of its argument d (dg) and gives  *)
(* both back as the call leaves them.  same says that d is the object      *)
(* itself.  Copying a map with nodes allocates, so it may throw            *)
(* std::bad_alloc; fails says that it does.                                *)

BadAlloc == "std::bad_alloc"

swap(a, b) == [first |-> b, second |-> a]

\* Digraph(const Digraph& d) : graph{ d.graph }; nothing is constructed if the copy throws
copyConstructor(dg, fails) ==
    IF fails /\ dg # EmptyGraph
    THEN [constructed |-> FALSE, graph |-> EmptyGraph, d |-> dg, thrown |-> BadAlloc]
    ELSE [constructed |-> TRUE, graph |-> dg, d |-> dg, thrown |-> NoThrow]

\* Digraph(Digraph&& d) noexcept { std::swap(graph, d.graph); }
moveConstructor(dg) ==
    LET s == swap(EmptyGraph, dg)
    IN  [graph |-> s.first, d |-> s.second, thrown |-> NoThrow]

\* operator=(const Digraph& d): graph.clear(); map temp(d.graph); graph = temp;
copyAssignSwaps(g, dg, same, fails) ==
    IF same THEN [graph |-> g, d |-> g, thrown |-> NoThrow]
    ELSE [graph |-> dg, d |-> g, thrown |-> NoThrow]

copyAssign(g, dg, same, fails) ==
    IF same THEN [graph |-> g, d |-> g, thrown |-> NoThrow]
    ELSE LET cleared == EmptyGraph
         IN  IF fails /\ dg # EmptyGraph
             THEN [graph |-> cleared, d |-> dg, thrown |-> BadAlloc]
             ELSE [graph |-> dg, d |-> dg, thrown |-> NoThrow]

\* operator=(Digraph&& d) noexcept: if(this != &d) std::swap(graph, d.graph);
moveAssign(g, dg, same) ==
    IF same THEN [graph |-> g, d |-> g, thrown |-> NoThrow]
    ELSE LET s == swap(g, dg)
         IN  [graph |-> s.first, d |-> s.second, thrown |-> NoThrow]

(* One call each.  The receiver is the object whose graph member is graph  *)
(* ("this"), or d, or the object is assigned to itself ("self").           *)

Receivers == {"this", "d", "self"}

CopyConstruct(fails) ==
    /\ Idle
    /\ LET r == copyConstructor(dgraph, fails)
       IN  /\ graph' = IF r.constructed THEN r.graph ELSE graph
           /\ dgraph' = r.d
           /\ thrown' = r.thrown
    /\ call' = "Digraph(const Digraph&)"
    /\ result' = NoResult
    /\ UNCHANGED <<terminated, vtype, hashVars, avlVars, pc, spVars, scVars>>

MoveConstruct ==
    /\ Idle
    /\ LET r == moveConstructor(dgraph)
       IN  graph' = r.graph /\ dgraph' = r.d /\ thrown' = r.thrown
    /\ call' = "Digraph(Digraph&&)"
    /\ result' = NoResult
    /\ UNCHANGED <<terminated, vtype, hashVars, avlVars, pc, spVars, scVars>>

CopyAssign(receiver, fails) ==
    /\ Idle
    /\ \/ /\ receiver = "this"
          /\ LET r == copyAssign(graph, dgraph, FALSE, fails)
             IN  graph' = r.graph /\ dgraph' = r.d /\ thrown' = r.thrown
          /\ call' = "operator=(const Digraph&)"
       \/ /\ receiver = "d"
          /\ LET r == copyAssign(dgraph, graph, FALSE, fails)
             IN  dgraph' = r.graph /\ graph' = r.d /\ thrown' = r.thrown
          /\ call' = "d.operator=(const Digraph&)"
       \/ /\ receiver = "self"
          /\ LET r == copyAssign(graph, graph, TRUE, fails)
             IN  graph' = r.graph /\ thrown' = r.thrown
          /\ dgraph' = dgraph
          /\ call' = "operator=(const Digraph&) to itself"
    /\ result' = NoResult
    /\ UNCHANGED <<terminated, vtype, hashVars, avlVars, pc, spVars, scVars>>

MoveAssign(receiver) ==
    /\ Idle
    /\ \/ /\ receiver = "this"
          /\ LET r == moveAssign(graph, dgraph, FALSE)
             IN  graph' = r.graph /\ dgraph' = r.d /\ thrown' = r.thrown
          /\ call' = "operator=(Digraph&&)"
       \/ /\ receiver = "d"
          /\ LET r == moveAssign(dgraph, graph, FALSE)
             IN  dgraph' = r.graph /\ graph' = r.d /\ thrown' = r.thrown
          /\ call' = "d.operator=(Digraph&&)"
       \/ /\ receiver = "self"
          /\ LET r == moveAssign(graph, graph, TRUE)
             IN  graph' = r.graph /\ thrown' = r.thrown
          /\ dgraph' = dgraph
          /\ call' = "operator=(Digraph&&) to itself"
    /\ result' = NoResult
    /\ UNCHANGED <<terminated, vtype, hashVars, avlVars, pc, spVars, scVars>>

\* the state of the two algorithms while neither is running
AlgorithmsIdle ==
    /\ pc = "idle"
    /\ startVertex = 0 /\ kv = <<>> /\ pv = <<>> /\ dv = <<>> /\ pq = <<>>
    /\ vertex = 0 /\ j = 0
    /\ tracker = <<>> /\ scan = <<>> /\ connected = "unknown" /\ stack = <<>>

\* a single Digraph object, beside a default-constructed d, and no call made
Alone == dgraph = EmptyGraph /\ result = NoResult

----------------------------------------------------------------------------
(* findShortestPaths (lines 450-527), one action per step of its loops.    *)
(* kv and dv are vectors of vertexCount() + 1 cells indexed with at(),     *)
(* which throws std::out_of_range outside 0..vertexCount(); pv is a map    *)
(* over the vertex keys.                                                   *)

DvInit == 2147000000
Unknown == -1

\* std::vector::at / std::map::at reach the cell or throw
InRange(vec, k) == k \in DOMAIN vec

\* the caller's weight function, in halves; the weights are non-negative
edgeWeightFunc(einfo) == einfo

\* dv.at(vertex) + edgeWeightFunc(j->einfo): an int plus a double, as a
\* double with its whole part and its number of halves (0 or 1)
plus(d, w) == [whole |-> d + (w \div 2), half |-> w % 2]

\* conversion of a non-negative double to int: the fraction is dropped
toInt(x) == x.whole

\* line 494: dv.at(j->toVertex) > dv.at(vertex) + edgeWeightFunc(j->einfo)
relaxesAlsoOnEqual(dvTo, sum) == dvTo > sum.whole \/ (dvTo = sum.whole /\ 0 >= sum.half)

relaxes(dvTo, sum) == dvTo > sum.whole \/ (dvTo = sum.whole /\ 0 > sum.half)

\* lines 471-472: compare(left, right), the queue's "less than"
compare(left, right) == left.second > right.second

\* the positions pq.top() may designate: an entry no other entry is before.
\* Which of several equivalent entries is on top is the heap's business.
top(q) == {i \in 1..Len(q) : \A k \in 1..Len(q) : ~compare(q[i], q[k])}

\* lines 517-524
selfMapSkipped(p) == p

selfMap(p) == [i \in DOMAIN p |-> IF p[i] = Unknown THEN i ELSE p[i]]

FindShortestPaths(s) ==
    /\ Idle
    /\ call' = "findShortestPaths"
    /\ startVertex' = s
    /\ kv' = [i \in 0..vertexCount(graph) |-> FALSE]
    /\ LET pv0 == [i \in DOMAIN graph |-> Unknown]
           dv0 == [i \in 0..vertexCount(graph) |-> DvInit]
       IN  IF ~InRange(pv0, s)
           THEN /\ pv' = pv0 /\ dv' = dv0 /\ pq' = <<>>
                /\ thrown' = OutOfRange /\ pc' = "thrown"
           ELSE IF ~InRange(dv0, s)
           THEN /\ pv' = [pv0 EXCEPT ![s] = s] /\ dv' = dv0 /\ pq' = <<>>
                /\ thrown' = OutOfRange /\ pc' = "thrown"
           ELSE /\ pv' = [pv0 EXCEPT ![s] = s]
                /\ dv' = [dv0 EXCEPT ![s] = 0]
                /\ pq' = <<[first |-> 0, second |-> s]>>
                /\ thrown' = NoThrow /\ pc' = "loop"
    /\ UNCHANGED <<graph, terminated, vtype, hashVars, avlVars, objVars, vertex, j, scVars>>

\* lines 478-489: take the top entry; a vertex not yet known is marked and
\* its edge list entered
Dequeue ==
    /\ pc = "loop" /\ pq # <<>>
    /\ \E i \in top(pq) :
          /\ vertex' = pq[i].second
          /\ pq' = RemoveAt(pq, i)
          /\ IF ~InRange(kv, pq[i].second)
             THEN /\ thrown' = OutOfRange /\ pc' = "thrown"
                  /\ UNCHANGED <<kv, j>>
             ELSE IF kv[pq[i].second] = FALSE
             THEN /\ kv' = [kv EXCEPT ![pq[i].second] = TRUE]
                  /\ j' = 1
                  /\ pc' = IF graph[pq[i].second].edges = <<>> THEN "loop" ELSE "edges"
                  /\ UNCHANGED thrown
             ELSE UNCHANGED <<kv, j, pc, thrown>>
    /\ UNCHANGED <<graph, call, terminated, vtype, hashVars, avlVars, objVars, startVertex, pv, dv, scVars>>

\* lines 491-511: one turn of the loop over vertex's edges
Relax ==
    /\ pc = "edges"
    /\ LET e == graph[vertex].edges[j]
           last == j = Len(graph[vertex].edges)
       IN  IF ~InRange(dv, e.toVertex)
           THEN /\ thrown' = OutOfRange /\ pc' = "thrown"
                /\ UNCHANGED <<dv, pv, pq, j>>
           ELSE /\ IF relaxes(dv[e.toVertex], plus(dv[vertex], edgeWeightFunc(e.einfo)))
                   THEN LET d == toInt(plus(dv[vertex], edgeWeightFunc(e.einfo)))
                        IN  /\ dv' = [dv EXCEPT ![e.toVertex] = d]
                            /\ pv' = IF e.toVertex \in DOMAIN pv
                                     THEN [pv EXCEPT ![e.toVertex] = vertex]
                                     ELSE pv
                            /\ pq' = Append(pq, [first |-> d, second |-> e.toVertex])
                   ELSE UNCHANGED <<dv, pv, pq>>
                /\ j' = j + 1
                /\ pc' = IF last THEN "loop" ELSE "edges"
                /\ UNCHANGED thrown
    /\ UNCHANGED <<graph, call, terminated, vtype, hashVars, avlVars, objVars, startVertex, kv, vertex, scVars>>

\* lines 517-526: the queue is empty
Return ==
    /\ pc = "loop" /\ pq = <<>>
    /\ pv' = selfMap(pv)
    /\ pc' = "done"
    /\ UNCHANGED <<graph, call, thrown, terminated, vtype, hashVars, avlVars, objVars, startVertex, kv, dv, pq,
                   vertex, j, scVars>>

----------------------------------------------------------------------------
(* isStronglyConnected (lines 396-412) and depthFirst (lines 415-447).     *)
(* depthFirst takes the vertex number as a VertexInfo, so every key handed *)
(* to it is converted to the payload type and compared with the map's int  *)
(* keys after the usual promotion.                                         *)

\* int -> VertexInfo, as the int it compares equal to
asVertexInfo(k) == IF vtype = "bool" THEN (IF k = 0 THEN 0 ELSE 1) ELSE k

RECURSIVE depthFirst(_, _, _)
RECURSIVE depthFirstScan(_, _, _, _, _)
RECURSIVE depthFirstEdges(_, _, _)

\* the loop over the map, lines 421-446; found is strong_connected
depthFirstScan(g, v, ks, found, tr) ==
    IF ks = <<>> THEN tr
    ELSE IF Head(ks) = v
    THEN LET seen == found \/ \E n \in 1..Len(tr) : tr[n] = v
         IN  IF seen
             THEN depthFirstScan(g, v, Tail(ks), seen, tr)
             ELSE depthFirstScan(g, v, Tail(ks), seen,
                      depthFirstEdges(g, g[Head(ks)].edges, Append(tr, Head(ks))))
    ELSE depthFirstScan(g, v, Tail(ks), found, tr)

\* the loop over the edges, lines 438-443
depthFirstEdges(g, es, tr) ==
    IF es = <<>> THEN tr
    ELSE depthFirstEdges(g, Tail(es), depthFirst(g, asVertexInfo(Head(es).toVertex), tr))

depthFirst(g, v, tr) == depthFirstScan(g, v, vertices(g), FALSE, tr)

IsStronglyConnected ==
    /\ Idle
    /\ call' = "isStronglyConnected"
    /\ thrown' = NoThrow
    /\ scan' = vertices(graph)
    /\ tracker' = <<>>
    /\ connected' = "unknown"
    /\ pc' = "scan"
    /\ UNCHANGED <<graph, terminated, vtype, hashVars, avlVars, objVars, spVars, stack>>

\* one turn of the loop of lines 400-409
Traverse ==
    /\ pc = "scan" /\ scan # <<>>
    /\ tracker' = depthFirst(graph, asVertexInfo(Head(scan)), <<>>)
    /\ IF vertexCount(graph) # Len(tracker')
       THEN connected' = FALSE /\ pc' = "done" /\ UNCHANGED scan
       ELSE scan' = Tail(scan) /\ UNCHANGED <<connected, pc>>
    /\ UNCHANGED <<graph, call, thrown, terminated, vtype, hashVars, avlVars, objVars, spVars, stack>>

\* line 411
ReturnTrue ==
    /\ pc = "scan" /\ scan = <<>>
    /\ connected' = TRUE
    /\ pc' = "done"
    /\ UNCHANGED <<graph, call, thrown, terminated, vtype, hashVars, avlVars, objVars, spVars, tracker, scan, stack>>

----------------------------------------------------------------------------
(* isStronglyConnected and depthFirst step by step: stack holds one record *)
(* per activation of depthFirst.  ks are the map's keys iterator i has     *)
(* still to visit, es the edges iterator k has still to visit, found is    *)
(* strong_connected; tracker is the vector every activation shares.        *)

\* mutation of visited: a recorded vertex is not recognised
visitedNever(tr, v) == FALSE

\* the loop over tracker, lines 424-431
visited(tr, v) == \E n \in 1..Len(tr) : tr[n] = v

\* a new activation of depthFirst(v, tracker), lines 418-421
activation(g, v) == [vertex |-> v, ks |-> vertices(g), es |-> <<>>, found |-> FALSE]

\* line 403: a fresh tracker and the call depthFirst(i->first, tracker)
Call ==
    /\ pc = "scan" /\ scan # <<>>
    /\ tracker' = <<>>
    /\ stack' = <<activation(graph, asVertexInfo(Head(scan)))>>
    /\ pc' = "dfs"
    /\ UNCHANGED <<graph, call, thrown, terminated, vtype, hashVars, avlVars, objVars, spVars,
                   scan, connected>>

\* one turn of the loop over the map, lines 421-437 and 445
Visit ==
    /\ pc = "dfs" /\ stack # <<>>
    /\ LET n == Len(stack)
           f == stack[n]
       IN  /\ f.es = <<>> /\ f.ks # <<>>
           /\ IF Head(f.ks) = f.vertex
              THEN LET seen == f.found \/ visited(tracker, f.vertex)
                   IN  IF seen
                       THEN /\ stack' = [stack EXCEPT ![n] = [f EXCEPT !.ks = Tail(f.ks),
                                                                      !.found = TRUE]]
                            /\ UNCHANGED tracker
                       ELSE /\ tracker' = Append(tracker, Head(f.ks))
                            /\ stack' = [stack EXCEPT ![n] =
                                           [f EXCEPT !.ks = Tail(f.ks),
                                                     !.es = graph[Head(f.ks)].edges]]
              ELSE /\ stack' = [stack EXCEPT ![n] = [f EXCEPT !.ks = Tail(f.ks)]]
                   /\ UNCHANGED tracker
    /\ UNCHANGED <<graph, call, thrown, terminated, vtype, hashVars, avlVars, objVars, spVars,
                   scan, connected, pc>>

\* one turn of the loop over the edges, lines 438-443: the recursive call
Recurse ==
    /\ pc = "dfs" /\ stack # <<>>
    /\ LET n == Len(stack)
           f == stack[n]
       IN  /\ f.es # <<>>
           /\ stack' = Append([stack EXCEPT ![n] = [f EXCEPT !.es = Tail(f.es)]],
                              activation(graph, asVertexInfo(Head(f.es).toVertex)))
    /\ UNCHANGED <<graph, call, thrown, terminated, vtype, hashVars, avlVars, objVars, spVars,
                   tracker, scan, connected, pc>>

\* line 447: the loop over the map has ended and the activation returns
ReturnFromDepthFirst ==
    /\ pc = "dfs" /\ stack # <<>>
    /\ LET n == Len(stack)
       IN  /\ stack[n].es = <<>> /\ stack[n].ks = <<>>
           /\ stack' = SubSeq(stack, 1, n - 1)
    /\ UNCHANGED <<graph, call, thrown, terminated, vtype, hashVars, avlVars, objVars, spVars,
                   tracker, scan, connected, pc>>

\* lines 405-408, after the outermost activation has returned
Compare ==
    /\ pc = "dfs" /\ stack = <<>>
    /\ IF vertexCount(graph) # Len(tracker)
       THEN connected' = FALSE /\ pc' = "done" /\ UNCHANGED scan
       ELSE scan' = Tail(scan) /\ pc' = "scan" /\ UNCHANGED connected
    /\ UNCHANGED <<graph, call, thrown, terminated, vtype, hashVars, avlVars, objVars, spVars,
                   tracker, stack>>

----------------------------------------------------------------------------

(* HashSet (Hash_Map.hpp): a separately chained hash table.  hashTable is  *)
(* the array of capacity cells, cell i holding the values of its list from *)
(* the head on.  The elements are unsigned integers and the hash function  *)
(* handed to the constructor is hashFunction.                              *)

DEFAULT_CAPACITY == 10
Elements == 0..10
MaxSize == 11       \* add is not called once sz has reached this

hashFunction(element) == element

\* new Node*[n] with every cell nullptr
emptyTable(n) == [i \in 0..(n - 1) |-> <<>>]

\* HashSet(hashFunction) (lines 63-74)
HashSetNew ==
    /\ hashTable = emptyTable(DEFAULT_CAPACITY)
    /\ sz = 0
    /\ capacity = DEFAULT_CAPACITY
    /\ added = {}

\* loadFactor() is static_cast<double>(sz) / capacity (line 232); the
\* quotient is kept as a fraction
loadFactor(s, c) == [num |-> s, den |-> c]

\* loadFactor() > 0.8 (line 240), 0.8 being 4/5
exceedsLoad(lf) == 5 * lf.num > 4 * lf.den

\* contains (lines 297-316)
contains(table, c, element) ==
    LET index == hashFunction(element) % c
    IN  \E k \in 1..Len(table[index]) : table[index][k] = element

\* the inner loop of the resize (lines 248-259): each node of one old list,
\* from its head on, is pushed at the front of cell `index` of the new table
RECURSIVE moveList(_, _, _)
moveList(nodes, newHashTable, index) ==
    IF nodes = <<>> THEN newHashTable
    ELSE moveList(Tail(nodes),
                  [newHashTable EXCEPT ![index] = <<Head(nodes)>> \o @],
                  index)

\* the outer loop (lines 245-260) from cell i on; the index of every node is
\* computed from the element being added (line 253)
RECURSIVE moveCells(_, _, _, _, _, _)
moveCells(table, i, c, newHashTable, newCapacity, element) ==
    IF i >= c THEN newHashTable
    ELSE moveCells(table, i + 1, c,
                   moveList(table[i], newHashTable, hashFunction(element) % newCapacity),
                   newCapacity, element)

\* add (lines 236-294) on a set s = [hashTable, sz, capacity]
add(s, element) ==
    LET newCapacity == s.capacity * 2 + 1
        r == IF exceedsLoad(loadFactor(s.sz, s.capacity))
             THEN [hashTable |-> moveCells(s.hashTable, 0, s.capacity,
                                           emptyTable(newCapacity), newCapacity, element),
                   sz |-> s.sz,
                   capacity |-> newCapacity]
             ELSE s
        index == hashFunction(element) % r.capacity
    IN  IF contains(r.hashTable, r.capacity, element) = FALSE
        THEN [hashTable |-> [r.hashTable EXCEPT ![index] = <<element>> \o @],
              sz |-> r.sz + 1,
              capacity |-> r.capacity]
        ELSE r

size(s) == s.sz

\* elementsAtIndex (lines 326-346); reads are the array cells it reads
elementsAtIndex(s, index) ==
    IF index >= 0 /\ index < s.capacity
    THEN [result |-> Len(s.hashTable[index]), reads |-> {index}]
    ELSE [result |-> 0, reads |-> {}]

\* isElementAtIndex (lines 349-371).  Its test is index >= 0 || index <
\* capacity, so it reads hashTable[index] whatever the index; outside the
\* array the read is undefined: the cell may hold anything, so either answer
\* may come back, or the process is stopped (ub).
isElementAtIndex(s, element, index) ==
    IF index >= 0 \/ index < s.capacity
    THEN IF index \in DOMAIN s.hashTable
         THEN [results |-> {\E k \in 1..Len(s.hashTable[index]) :
                               s.hashTable[index][k] = element},
               reads |-> {index}, ub |-> FALSE]
         ELSE [results |-> BOOLEAN, reads |-> {index}, ub |-> TRUE]
    ELSE [results |-> {FALSE}, reads |-> {}, ub |-> FALSE]

this == [hashTable |-> hashTable, sz |-> sz, capacity |-> capacity]

Add(element) ==
    /\ Idle
    /\ sz < MaxSize
    /\ LET r == add(this, element)
       IN  hashTable' = r.hashTable /\ sz' = r.sz /\ capacity' = r.capacity
    /\ added' = added \cup {element}
    /\ call' = "HashSet::add"
    /\ thrown' = NoThrow
    /\ result' = NoResult
    /\ UNCHANGED <<digraphVars, avlVars>>

Contains(element) ==
    /\ Idle
    /\ result' = contains(hashTable, capacity, element)
    /\ call' = "HashSet::contains"
    /\ thrown' = NoThrow
    /\ UNCHANGED <<hashVars, digraphVars, avlVars>>

Size ==
    /\ Idle
    /\ result' = size(this)
    /\ call' = "HashSet::size"
    /\ thrown' = NoThrow
    /\ UNCHANGED <<hashVars, digraphVars, avlVars>>

ElementsAtIndex(index) ==
    /\ Idle
    /\ result' = elementsAtIndex(this, index).result
    /\ call' = "HashSet::elementsAtIndex"
    /\ thrown' = NoThrow
    /\ UNCHANGED <<hashVars, digraphVars, avlVars>>

IsElementAtIndex(element, index) ==
    /\ Idle
    /\ LET r == isElementAtIndex(this, element, index)
       IN  \/ \E b \in r.results : result' = b /\ terminated' = FALSE
           \/ r.ub /\ result' = NoResult /\ terminated' = TRUE
    /\ call' = "HashSet::isElementAtIndex"
    /\ thrown' = NoThrow
    /\ UNCHANGED <<hashVars, avlVars, graph, vtype, pc, spVars, scVars, dgraph>>

----------------------------------------------------------------------------
(* AVLSet (AVLSet.hpp): a binary search tree of Node{value, left, right},  *)
(* rebalanced by rotations when isBalancing is set.  A pointer to a Node   *)
(* is the record of the node it points to, nullptr the empty tuple.  An    *)
(* AVLSet object is the record of its members root, sz and isBalancing;    *)
(* freed says that root points to nodes destroyAll has deleted.            *)

MaxElement == 7
AvlElements == 1..MaxElement

nullptr == <<>>

\* new Node{element, left, right}
Node(element, l, r) == [value |-> element, left |-> l, right |-> r]

\* AVLSet(shouldBalance) (lines 71-75)
AVLSetObject(shouldBalance) ==
    [root |-> nullptr, sz |-> 0, isBalancing |-> shouldBalance, freed |-> FALSE]

AVLSetNew(shouldBalance) ==
    /\ avlSet = AVLSetObject(shouldBalance)
    /\ avlOther = AVLSetObject(TRUE)
    /\ avlAdded = {}

\* height_ (lines 320-332)
RECURSIVE height_(_)
height_(node_) ==
    IF node_ = nullptr THEN -1
    ELSE LET left_subtree == height_(node_.left)
             right_subtree == height_(node_.right)
         IN  (IF left_subtree > right_subtree THEN left_subtree ELSE right_subtree) + 1

\* mutation of rrRotation: the left subtree of temp is dropped
rrRotationDropsSubtree(node_) ==
    LET temp == node_.right
    IN  Node(temp.value, Node(node_.value, node_.left, nullptr), temp.right)

\* rrRotation (lines 179-187): the node that node_ refers to afterwards
rrRotation(node_) ==
    LET temp == node_.right
    IN  Node(temp.value, Node(node_.value, node_.left, temp.left), temp.right)

\* llRotation (lines 190-198)
llRotation(node_) ==
    LET temp == node_.left
    IN  Node(temp.value, temp.left, Node(node_.value, temp.right, node_.right))

\* mutation of checkBalance: a single rotation where the code makes two
checkBalanceSingleRotations(node_, element) ==
    IF node_ = nullptr THEN node_
    ELSE LET balance == height_(node_.left) - height_(node_.right)
         IN  IF balance < -1 THEN rrRotation(node_)
             ELSE IF balance > 1 THEN llRotation(node_)
             ELSE node_

\* checkBalance (lines 201-234): the node that node_ refers to afterwards
checkBalance(node_, element) ==
    IF node_ = nullptr THEN node_
    ELSE LET balance == height_(node_.left) - height_(node_.right)
         IN  IF balance < -1
             THEN IF element > node_.right.value
                  THEN rrRotation(node_)
                  ELSE IF element < node_.right.value
                  THEN rrRotation([node_ EXCEPT !.right = llRotation(node_.right)])
                  ELSE node_
             ELSE IF balance > 1
             THEN IF element < node_.left.value
                  THEN llRotation(node_)
                  ELSE IF element > node_.left.value
                  THEN llRotation([node_ EXCEPT !.left = rrRotation(node_.left)])
                  ELSE node_
             ELSE node_

(* insert (lines 237-270).  The result carries the node that node_ refers  *)
(* to afterwards, the number of nodes made (what sz++ adds), and whether   *)
(* new threw; fails says that the allocation, if one is made, throws.  An  *)
(* exception leaves through every enclosing insert without rebalancing.    *)

RECURSIVE insert(_, _, _, _)
insert(node_, element, balancing, fails) ==
    LET rebalanced(r) ==
            IF r.thrown \/ ~balancing THEN r
            ELSE [r EXCEPT !.node = checkBalance(r.node, element)]
    IN  IF node_ = nullptr
        THEN IF fails
             THEN [node |-> node_, made |-> 0, thrown |-> TRUE]
             ELSE rebalanced([node |-> Node(element, nullptr, nullptr),
                              made |-> 1, thrown |-> FALSE])
        ELSE IF element < node_.value
        THEN LET r == insert(node_.left, element, balancing, fails)
             IN  rebalanced([r EXCEPT !.node = [node_ EXCEPT !.left = r.node]])
        ELSE IF element > node_.value
        THEN LET r == insert(node_.right, element, balancing, fails)
             IN  rebalanced([r EXCEPT !.node = [node_ EXCEPT !.right = r.node]])
        ELSE [node |-> node_, made |-> 0, thrown |-> FALSE]

\* add (lines 273-277); when new throws, insert has called destroyAll(root)
\* (lines 247-251 and 78-89): every node is deleted, sz is 0 and root keeps
\* its value
avlAdd(set, element, fails) ==
    LET r == insert(set.root, element, set.isBalancing, fails)
    IN  IF r.thrown
        THEN [set |-> [set EXCEPT !.sz = 0, !.freed = (set.root # nullptr)],
              thrown |-> BadAlloc]
        ELSE [set |-> [set EXCEPT !.root = r.node, !.sz = @ + r.made],
              thrown |-> NoThrow]

\* contains_ (lines 280-303)
RECURSIVE contains_(_, _)
contains_(node_, element) ==
    IF node_ # nullptr
    THEN IF node_.value = element THEN TRUE
         ELSE IF element < node_.value THEN contains_(node_.left, element)
         ELSE contains_(node_.right, element)
    ELSE FALSE

\* contains (lines 306-310)
avlContains(set, element) == contains_(set.root, element)

\* size (lines 313-317)
avlSize(set) == set.sz

\* inorder_ (lines 366-380): the values handed to visit, in order
RECURSIVE inorder_(_)
inorder_(node_) ==
    IF node_ = nullptr THEN <<>>
    ELSE inorder_(node_.left) \o <<node_.value>> \o inorder_(node_.right)

\* inorder (lines 383-387)
inorder(set) == inorder_(set.root)

\* AVLSet(AVLSet&& s) (lines 134-139): sz and isBalancing are copied from s
\* and the roots swapped
avlMoveConstructor(s) ==
    LET r == swap(nullptr, s.root)
        f == swap(FALSE, s.freed)
    IN  [this |-> [root |-> r.first, sz |-> s.sz, isBalancing |-> s.isBalancing,
                   freed |-> f.first],
         s |-> [s EXCEPT !.root = r.second, !.freed = f.second]]

\* operator=(AVLSet&& s) (lines 158-169)
avlMoveAssign(set, s, same) ==
    IF same THEN [this |-> set, s |-> set]
    ELSE [this |-> s, s |-> set]

(* One call each, on the object avlSet unless said otherwise.  No member   *)
(* is called on an object whose nodes have been deleted.                   *)

AvlAdd(element, fails) ==
    /\ Idle /\ ~avlSet.freed
    /\ LET r == avlAdd(avlSet, element, fails)
       IN  /\ avlSet' = r.set
           /\ thrown' = r.thrown
           /\ avlAdded' = IF r.thrown = NoThrow THEN avlAdded \cup {element} ELSE avlAdded
    /\ call' = "AVLSet::add"
    /\ result' = NoResult
    /\ UNCHANGED <<avlOther, hashVars, digraphVars>>

AvlContains(element) ==
    /\ Idle /\ ~avlSet.freed
    /\ call' = "AVLSet::contains"
    /\ thrown' = NoThrow
    /\ result' = avlContains(avlSet, element)
    /\ UNCHANGED <<avlVars, hashVars, digraphVars>>

AvlSize ==
    /\ Idle
    /\ call' = "AVLSet::size"
    /\ thrown' = NoThrow
    /\ result' = avlSize(avlSet)
    /\ UNCHANGED <<avlVars, hashVars, digraphVars>>

AvlInorder ==
    /\ Idle /\ ~avlSet.freed
    /\ call' = "AVLSet::inorder"
    /\ thrown' = NoThrow
    /\ result' = inorder(avlSet)
    /\ UNCHANGED <<avlVars, hashVars, digraphVars>>

\* AVLSet avlSet(std::move(avlOther))
AvlMoveConstruct ==
    /\ Idle
    /\ LET r == avlMoveConstructor(avlOther)
       IN  avlSet' = r.this /\ avlOther' = r.s
    /\ avlAdded' = {}
    /\ call' = "AVLSet(AVLSet&&)"
    /\ thrown' = NoThrow
    /\ result' = NoResult
    /\ UNCHANGED <<hashVars, digraphVars>>

AvlMoveAssign(receiver) ==
    /\ Idle
    /\ \/ /\ receiver = "this"
          /\ LET r == avlMoveAssign(avlSet, avlOther, FALSE)
             IN  avlSet' = r.this /\ avlOther' = r.s
          /\ call' = "AVLSet::operator=(AVLSet&&)"
       \/ /\ receiver = "d"
          /\ LET r == avlMoveAssign(avlOther, avlSet, FALSE)
             IN  avlOther' = r.this /\ avlSet' = r.s
          /\ call' = "s.operator=(AVLSet&&)"
       \/ /\ receiver = "self"
          /\ LET r == avlMoveAssign(avlSet, avlSet, TRUE)
             IN  avlSet' = r.this
          /\ avlOther' = avlOther
          /\ call' = "AVLSet::operator=(AVLSet&&) to itself"
    /\ thrown' = NoThrow
    /\ result' = NoResult
    /\ UNCHANGED <<avlAdded, hashVars, digraphVars>>

----------------------------------------------------------------------------

(* Specifications *)

Init ==
    /\ graph = EmptyGraph
    /\ call = "Digraph"
    /\ thrown = NoThrow
    /\ terminated = FALSE
    /\ vtype = "int"
    /\ AlgorithmsIdle
    /\ Alone
    /\ HashSetNew
    /\ AVLSetNew(TRUE)

(* A new vertex carries a payload of StoreVertexInfos; a call with a key    *)
(* already present carries any payload of VertexInfos.                     *)
Next ==
    \/ \E v \in StoreKeys, vinfo \in VertexInfos :
          /\ vinfo \in StoreVertexInfos \/ v \in DOMAIN graph
          /\ AddVertex(v, vinfo)
    \/ \E from \in StoreKeys, to \in StoreKeys, einfo \in StoreEdgeInfos : AddEdge(from, to, einfo)
    \/ \E v \in StoreKeys : RemoveVertex(v)
    \/ \E from \in StoreKeys, to \in StoreKeys : RemoveEdge(from, to)

Spec == Init /\ [][Next]_vars

(* The store over QueryKeys with its mutators and its queries. *)
QueryKeys == {1, 2}

NextQuery ==
    \/ \E v \in QueryKeys, vinfo \in VertexInfos : AddVertex(v, vinfo)
    \/ \E from \in QueryKeys, to \in QueryKeys, einfo \in StoreEdgeInfos :
          AddEdge(from, to, einfo)
    \/ \E v \in QueryKeys : RemoveVertex(v)
    \/ \E from \in QueryKeys, to \in QueryKeys : RemoveEdge(from, to)
    \/ \E from \in QueryKeys, to \in QueryKeys : EdgeInfo(from, to)
    \/ VertexCount
    \/ EdgeCount
    \/ \E v \in QueryKeys : EdgeCountOfVertex(v)

SpecQuery == Init /\ [][NextQuery]_vars

(* Two Digraph objects over ObjectKeys: the mutators act on the one whose  *)
(* graph member is graph, copies and moves go between the two.  Edges join *)
(* two different vertices.                                                 *)
ObjectKeys == {1, 2}

NextObjects ==
    \/ \E v \in ObjectKeys, vinfo \in VertexInfos : AddVertex(v, vinfo)
    \/ \E from \in ObjectKeys : \E to \in ObjectKeys \ {from}, einfo \in StoreEdgeInfos :
          AddEdge(from, to, einfo)
    \/ \E v \in ObjectKeys : RemoveVertex(v)
    \/ \E from \in ObjectKeys : \E to \in ObjectKeys \ {from} : RemoveEdge(from, to)
    \/ \E fails \in BOOLEAN : CopyConstruct(fails)
    \/ MoveConstruct
    \/ \E receiver \in Receivers, fails \in BOOLEAN : CopyAssign(receiver, fails)
    \/ \E receiver \in Receivers : MoveAssign(receiver)

SpecObjects == Init /\ [][NextObjects]_vars

(* findShortestPaths on every graph that addVertex and addEdge build over  *)
(* PathKeys.  With one or two of the keys present the largest key lies     *)
(* outside kv and dv.                                                      *)

PathKeys == {1, 2, 3}

NextSP ==
    \/ \E v \in PathKeys : AddVertex(v, 0)
    \/ \E from \in PathKeys, to \in PathKeys, einfo \in EdgeInfos : AddEdge(from, to, einfo)
    \/ \E s \in PathKeys : FindShortestPaths(s)
    \/ Dequeue
    \/ Relax
    \/ Return

SpecSP == Init /\ [][NextSP]_vars

(* The same with the call running on until it returns or throws.           *)

SpecSPFair == SpecSP /\ WF_vars(Dequeue \/ Relax \/ Return)

(* isStronglyConnected on every graph that addVertex and addEdge build,    *)
(* for a Digraph whose VertexInfo is int and for one whose VertexInfo is   *)
(* bool.                                                                   *)

InitSC ==
    /\ graph = EmptyGraph
    /\ call = "Digraph"
    /\ thrown = NoThrow
    /\ terminated = FALSE
    /\ vtype \in {"int", "bool"}
    /\ AlgorithmsIdle
    /\ Alone
    /\ HashSetNew
    /\ AVLSetNew(TRUE)

NextSC ==
    \/ \E v \in StoreKeys, vinfo \in VertexInfos : AddVertex(v, vinfo)
    \/ \E from \in StoreKeys, to \in StoreKeys : AddEdge(from, to, 0)
    \/ IsStronglyConnected
    \/ Traverse
    \/ ReturnTrue

SpecSC == InitSC /\ [][NextSC]_vars

(* isStronglyConnected with depthFirst taken one loop turn at a time, on   *)
(* the graphs over StoreKeys.  A call that has started keeps running until *)
(* it returns, which is what the fairness conditions of SpecDFSFair say.   *)

DepthFirstStep == Call \/ Visit \/ Recurse \/ ReturnFromDepthFirst \/ Compare \/ ReturnTrue

NextDFS ==
    \/ \E v \in StoreKeys, vinfo \in StoreVertexInfos : AddVertex(v, vinfo)
    \/ \E from \in StoreKeys, to \in StoreKeys : AddEdge(from, to, 0)
    \/ IsStronglyConnected
    \/ Call
    \/ Visit
    \/ Recurse
    \/ ReturnFromDepthFirst
    \/ Compare
    \/ ReturnTrue

SpecDFS == InitSC /\ [][NextDFS]_vars

SpecDFSFair == SpecDFS /\ WF_vars(DepthFirstStep)

(* findShortestPaths on the graphs over WideKeys with all four vertices    *)
(* present, whole-number weights and at most WideEdges edges, each edge    *)
(* list in ascending order of destination.                                 *)

WideEdges == 5
WideKeys == {1, 2, 3, 4}
WideInfos == {0, 2}         \* weights 0 and 1

Before(p, q) == p[1] < q[1] \/ (p[1] = q[1] /\ p[2] <= q[2])

RECURSIVE PairsInOrder(_)
PairsInOrder(E) ==
    IF E = {} THEN <<>>
    ELSE LET p == CHOOSE x \in E : \A y \in E : Before(x, y)
         IN  <<p>> \o PairsInOrder(E \ {p})

RECURSIVE addVertices(_, _)
addVertices(g, ks) ==
    IF ks = <<>> THEN g ELSE addVertices(addVertex(g, Head(ks), 0).graph, Tail(ks))

RECURSIVE addEdges(_, _, _)
addEdges(g, ps, w) ==
    IF ps = <<>> THEN g
    ELSE addEdges(addEdge(g, Head(ps)[1], Head(ps)[2], w[Head(ps)]).graph, Tail(ps), w)

InitWide ==
    /\ \E E \in {F \in SUBSET {p \in WideKeys \X WideKeys : p[1] # p[2]} :
                    Cardinality(F) <= WideEdges} :
          \E w \in [E -> WideInfos] :
             graph = addEdges(addVertices(EmptyGraph, KeysInOrder(WideKeys)),
                              PairsInOrder(E), w)
    /\ call = "addEdge"
    /\ thrown = NoThrow
    /\ terminated = FALSE
    /\ vtype = "int"
    /\ AlgorithmsIdle
    /\ Alone
    /\ HashSetNew
    /\ AVLSetNew(TRUE)

NextWide ==
    \/ \E s \in WideKeys : FindShortestPaths(s)
    \/ Dequeue
    \/ Relax
    \/ Return

SpecWide == InitWide /\ [][NextWide]_vars

----------------------------------------------------------------------------
(* A HashSet of unsigned integers with the hash function hashFunction. *)
InitHash ==
    /\ graph = EmptyGraph
    /\ call = "HashSet"
    /\ thrown = NoThrow
    /\ terminated = FALSE
    /\ vtype = "int"
    /\ AlgorithmsIdle
    /\ Alone
    /\ HashSetNew
    /\ AVLSetNew(TRUE)

NextHash ==
    \/ \E element \in Elements : Add(element)
    \/ \E element \in Elements : Contains(element)
    \/ Size

SpecHash == InitHash /\ [][NextHash]_vars

(* The HashSet with its two queries by cell index; the indices asked for   *)
(* lie inside and outside the array of either capacity.                    *)
IndexElements == {0, 1, 2, 3, 4, 5, 6, 7, 8, 10}
Indices == {0, 9, 10, 20, 21, 22}

NextHashIndex ==
    \/ \E element \in IndexElements : Add(element)
    \/ \E index \in Indices : ElementsAtIndex(index)
    \/ \E element \in {0, 10}, index \in Indices : IsElementAtIndex(element, index)

SpecHashIndex == InitHash /\ [][NextHashIndex]_vars

----------------------------------------------------------------------------
----------------------------------------------------------------------------
(* An AVLSet of the integers of AvlElements, constructed with balancing on *)
(* or off, and its add, contains, size and inorder.                        *)

InitAVL ==
    /\ graph = EmptyGraph
    /\ call = "AVLSet"
    /\ thrown = NoThrow
    /\ terminated = FALSE
    /\ vtype = "int"
    /\ AlgorithmsIdle
    /\ Alone
    /\ HashSetNew
    /\ \E shouldBalance \in BOOLEAN : AVLSetNew(shouldBalance)

NextAVL ==
    \/ \E element \in AvlElements, fails \in BOOLEAN : AvlAdd(element, fails)
    \/ \E element \in AvlElements : AvlContains(element)
    \/ AvlSize
    \/ AvlInorder

SpecAVL == InitAVL /\ [][NextAVL]_vars

(* Two AVLSet objects over MoveElements: add acts on avlSet, the moves go  *)
(* between the two.  add is not called once sz has reached MaxMoveSize.    *)

MoveElements == {1, 2, 3}
MaxMoveSize == 4

NextAVLMove ==
    \/ \E element \in MoveElements : avlSet.sz < MaxMoveSize /\ AvlAdd(element, FALSE)
    \/ AvlSize
    \/ AvlMoveConstruct
    \/ \E receiver \in Receivers : AvlMoveAssign(receiver)

SpecAVLMove == InitAVL /\ [][NextAVLMove]_vars

(* What the claims speak of: paths and their weights in the stored graph *)

HasEdge(g, from, to) ==
    /\ from \in DOMAIN g
    /\ \E k \in 1..Len(g[from].edges) : g[from].edges[k].toVertex = to

\* the weights (in halves) of the edges from -> to
Weights(g, from, to) ==
    {edgeWeightFunc(g[from].edges[k].einfo) :
        k \in {i \in 1..Len(g[from].edges) : g[from].edges[i].toVertex = to}}

\* d maps the vertices reached so far to the least weight found; one more edge
OneMoreEdge(g, d) ==
    LET S == DOMAIN d
        T == S \cup {v \in DOMAIN g : \E u \in S : HasEdge(g, u, v)}
    IN  [v \in T |->
            Min((IF v \in S THEN {d[v]} ELSE {})
                \cup UNION {{d[u] + w : w \in Weights(g, u, v)} : u \in S})]

RECURSIVE Within(_, _, _)
Within(g, d, n) == IF n = 0 THEN d ELSE Within(g, OneMoreEdge(g, d), n - 1)

\* the least total weight of a path from s to each vertex reachable from s
Distance(g, s) == Within(g, [v \in {s} |-> 0], Cardinality(DOMAIN g))

Reachable(g, s) == DOMAIN Distance(g, s)

\* following p from v arrives at s within n steps
RECURSIVE LeadsTo(_, _, _, _)
LeadsTo(p, v, s, n) ==
    IF v = s THEN TRUE
    ELSE IF n = 0 \/ v \notin DOMAIN p THEN FALSE
    ELSE IF p[v] = v THEN FALSE
    ELSE LeadsTo(p, p[v], s, n - 1)

Returned == call = "findShortestPaths" /\ pc = "done"

----------------------------------------------------------------------------
(* Claims *)

\* C1: in the map findShortestPaths(s, w) returns, every vertex v other than s
\* that is reachable from s has as P[v] the source of an existing edge
\* P[v] -> v with d(s, P[v]) + w(P[v] -> v) = d(s, v), d being the least
\* total path weight from s.
C1_PredecessorOnShortestPath ==
    Returned =>
        LET d == Distance(graph, startVertex)
        IN  \A v \in DOMAIN d \ {startVertex} :
               /\ pv[v] \in DOMAIN d
               /\ HasEdge(graph, pv[v], v)
               /\ \E w \in Weights(graph, pv[v], v) : d[pv[v]] + w = d[v]

\* C2: with the start vertex present, whatever the integer keys are,
\* findShortestPaths raises no error and the map it returns has exactly the
\* keys of vertices().
C2_AnyKeysNoError ==
    (call = "findShortestPaths" /\ startVertex \in DOMAIN graph) =>
        /\ thrown = NoThrow
        /\ pc # "thrown"
        /\ (pc = "done" => DOMAIN pv = DOMAIN graph)

\* C3: findShortestPaths with a start key that is not a vertex fails with the
\* VertexNotFound kind of the other operations.
C3_AbsentStartVertexNotFound ==
    (call = "findShortestPaths" /\ startVertex \notin DOMAIN graph) =>
        (pc = "thrown" /\ thrown \in VertexNotFound)

\* C4: in the returned map P[s] = s, and P[v] = v for every vertex v that is
\* not reachable from s.
C4_StartAndUnreachedSelfMap ==
    Returned =>
        /\ pv[startVertex] = startVertex
        /\ \A v \in DOMAIN graph \ Reachable(graph, startVertex) : pv[v] = v

C4_Witness ==
    /\ Returned
    /\ DOMAIN graph \ Reachable(graph, startVertex) # {}
    /\ \E v \in DOMAIN pv : pv[v] # v

\* C5: the returned map is a tree rooted at s: every entry P[v] # v names the
\* source of an existing edge P[v] -> v, and following predecessors from v
\* arrives at s.
C5_PredecessorTree ==
    Returned =>
        \A v \in DOMAIN pv :
           pv[v] # v =>
              /\ HasEdge(graph, pv[v], v)
              /\ LeadsTo(pv, v, startVertex, Cardinality(DOMAIN pv))

C5_Witness ==
    /\ Returned
    /\ \E v \in DOMAIN pv : pv[v] # v /\ pv[pv[v]] # pv[v]

\* C6: isStronglyConnected returns true exactly when every vertex is
\* reachable from every vertex (so also for the empty graph, a lone vertex
\* and the 3-cycle, and not for the 3-cycle without 3 -> 1).
C6_StronglyConnectedIffAllReachable ==
    (call = "isStronglyConnected" /\ pc = "done") =>
        (connected = TRUE <=>
            \A u \in DOMAIN graph : Reachable(graph, u) = DOMAIN graph)

\* C7: for every stored graph and every vertex v in it, the graph a
\* successful removeVertex(v) leaves has no key v in vertices() and no pair
\* of edges() with v as its source or its destination.
C7_RemoveVertexComplete ==
    \A v \in DOMAIN graph :
       LET r == removeVertex(graph, v)
       IN  /\ r.thrown = NoThrow
           /\ v \notin DOMAIN r.graph
           /\ \A n \in 1..Len(edges(r.graph)) :
                 edges(r.graph)[n][1] # v /\ edges(r.graph)[n][2] # v

C7_Witness ==
    /\ call = "removeVertex" /\ thrown = NoThrow /\ ~terminated
    /\ vertexCount(graph) = 2
    /\ edgeCount(graph) >= 1

\* C8: in every state reached from the empty graph by addVertex, addEdge,
\* removeVertex and removeEdge calls, every stored edge's destination is the
\* key of a vertex of the graph.
C8_DestinationsExist ==
    \A i \in DOMAIN graph :
       \A k \in 1..Len(graph[i].edges) : graph[i].edges[k].toVertex \in DOMAIN graph

C8_Witness ==
    /\ call = "removeVertex" /\ thrown = NoThrow /\ ~terminated
    /\ \E i \in DOMAIN graph : Len(graph[i].edges) = 2

\* C9: no vertex's edge list holds two edges with the same destination.
C9_NoParallelEdges ==
    \A i \in DOMAIN graph :
       \A k, n \in 1..Len(graph[i].edges) :
          graph[i].edges[k].toVertex = graph[i].edges[n].toVertex => k = n

C9_Witness ==
    /\ call = "addEdge" /\ thrown = EdgeExists
    /\ \E i \in DOMAIN graph : Len(graph[i].edges) >= 2

\* C10: on every stored graph, addVertex with a key that is a vertex fails
\* with VertexAlreadyExists, addEdge with a pair that has an edge fails with
\* EdgeAlreadyExists, and either call leaves the vertices, the edges and
\* every payload as they were, whatever payload the call offers.
C10_DuplicatesRejectedUnchanged ==
    /\ \A v \in DOMAIN graph, vinfo \in VertexInfos :
          LET r == addVertex(graph, v, vinfo)
          IN  r.thrown \in VertexAlreadyExists /\ r.graph = graph
    /\ \A from \in DOMAIN graph :
          \A k \in 1..Len(graph[from].edges), einfo \in StoreEdgeInfos :
             LET r == addEdge(graph, from, graph[from].edges[k].toVertex, einfo)
             IN  r.thrown \in EdgeAlreadyExists /\ r.graph = graph

C10_Witness ==
    /\ call = "addVertex" /\ thrown = VertexExists
    /\ edgeCount(graph) >= 1

\* C11: a call of removeVertex that fails for an absent vertex, a call of
\* removeEdge that fails for an absent endpoint or an absent edge, and a call
\* of addEdge that fails for an absent endpoint each leave the stored graph
\* (vertices, payloads, edge lists) exactly as it was, and the call returns
\* to its caller.
C11_FailingCallsLeaveGraph ==
    [][(\/ call' = "removeVertex" /\ thrown' = VertexMissing
        \/ call' = "removeEdge" /\ thrown' \in {VerticesMissing, EdgeMissing}
        \/ call' = "addEdge" /\ thrown' = VerticesMissing)
       => (graph' = graph /\ ~terminated')]_vars

C11_Witness ==
    /\ call = "removeEdge" /\ thrown = EdgeMissing
    /\ \E i \in DOMAIN graph : Len(graph[i].edges) >= 2

\* C12: on every stored graph and for every pair of keys, removeEdge(from, to)
\* and edgeInfo(from, to) fail with VertexNotFound when from or to is not a
\* vertex, and fail with EdgeNotFound exactly when both are vertices and no
\* edge from -> to is stored; no failure is of both kinds.
C12_ErrorKindsOfEdgeCalls ==
    /\ VertexNotFound \cap EdgeNotFound = {}
    /\ \A from \in QueryKeys, to \in QueryKeys :
          LET absent == from \notin DOMAIN graph \/ to \notin DOMAIN graph
              r == removeEdge(graph, from, to)
              q == edgeInfo(graph, from, to)
          IN  /\ absent => (r.thrown \in VertexNotFound /\ q.thrown \in VertexNotFound)
              /\ r.thrown \in EdgeNotFound <=> (~absent /\ ~HasEdge(graph, from, to))
              /\ q.thrown \in EdgeNotFound <=> (~absent /\ ~HasEdge(graph, from, to))

C12_Witness ==
    /\ call = "edgeInfo" /\ thrown = EdgeMissing
    /\ edgeCount(graph) >= 2 /\ vertexCount(graph) = 2

\* C13: every move transfer, by the move constructor or by move assignment
\* to either object, leaves the object moved from without vertices and edges
\* and the receiver holding exactly the graph the source held before.
C13_MoveEmptiesSource ==
    [][/\ call' \in {"Digraph(Digraph&&)", "operator=(Digraph&&)"}
          => /\ graph' = dgraph
             /\ vertexCount(dgraph') = 0 /\ edgeCount(dgraph') = 0
       /\ call' = "d.operator=(Digraph&&)"
          => /\ dgraph' = graph
             /\ vertexCount(graph') = 0 /\ edgeCount(graph') = 0]_vars

\* C14: a successful copy, by the copy constructor or by copy assignment to
\* either object, leaves the receiver equal to the source (vertices, vertex
\* payloads, edge lists, edge payloads) and the source as it was; and every
\* later call of a mutator on one object leaves the other object unchanged.
C14_CopyEqualAndIndependent ==
    [][/\ (call' \in {"Digraph(const Digraph&)", "operator=(const Digraph&)"}
           /\ thrown' = NoThrow)
          => (graph' = dgraph /\ dgraph' = dgraph)
       /\ (call' = "d.operator=(const Digraph&)" /\ thrown' = NoThrow)
          => (dgraph' = graph /\ graph' = graph)
       /\ call' \in {"addVertex", "addEdge", "removeVertex", "removeEdge"}
          => dgraph' = dgraph]_vars

C14_Witness ==
    /\ call = "removeEdge" /\ thrown = NoThrow
    /\ edgeCount(dgraph) = 2 /\ edgeCount(graph) = 1
    /\ \A i \in DOMAIN graph : graph[i].vinfo = dgraph[i].vinfo
    /\ \E i \in DOMAIN dgraph, k \in DOMAIN dgraph :
          i # k /\ dgraph[i].vinfo # dgraph[k].vinfo
             /\ dgraph[i].edges[1].einfo # dgraph[k].edges[1].einfo

\* C15: a copy assignment that fails with std::bad_alloc while copying
\* leaves both objects as they were before the call.
C15_FailedCopyAssignKeepsTarget ==
    [][(call' \in {"operator=(const Digraph&)", "d.operator=(const Digraph&)"}
        /\ thrown' = BadAlloc)
       => (graph' = graph /\ dgraph' = dgraph)]_vars

RECURSIVE SumOfEdgeCounts(_, _)
SumOfEdgeCounts(g, ks) ==
    IF ks = <<>> THEN 0
    ELSE edgeCountOfVertex(g, Head(ks)).result + SumOfEdgeCounts(g, Tail(ks))

\* C16: starting from the empty graph with vertexCount() = 0, a call of
\* addVertex that returns raises vertexCount() by one, a call of removeVertex
\* that returns lowers it by one and every other call leaves it alone, so
\* that it is the number of successful additions minus that of successful
\* removals; what vertexCount() returns is the number of keys present; and
\* what edgeCount() returns is the sum of edgeCount(v) over the vertices v
\* and the length of edges().
C16_CountsMatchCalls ==
    [][/\ vertexCount(EmptyGraph) = 0
       /\ ~terminated' =>
             vertexCount(graph') - vertexCount(graph) =
                IF call' = "addVertex" /\ thrown' = NoThrow THEN 1
                ELSE IF call' = "removeVertex" /\ thrown' = NoThrow THEN 0 - 1
                ELSE 0
       /\ call' = "vertexCount" =>
             /\ result' = Len(vertices(graph))
             /\ \A k \in 1..Len(vertices(graph)), n \in 1..Len(vertices(graph)) :
                   k # n => vertices(graph)[k] # vertices(graph)[n]
       /\ call' = "edgeCount" =>
             /\ result' = SumOfEdgeCounts(graph, vertices(graph))
             /\ result' = Len(edges(graph))]_vars

C16_Witness ==
    /\ call = "edgeCount" /\ result = 3
    /\ \E v \in DOMAIN graph, u \in DOMAIN graph :
          edgeCountOfVertex(graph, v).result = 2 /\ edgeCountOfVertex(graph, u).result = 1

\* C17: on every stored graph and for every stored edge from -> to, at
\* whatever position of from's list, a removeEdge(from, to) that returns
\* leaves the vertex set and every vertex payload as they were, leaves every
\* other vertex's list as it was, leaves from's list as it was but for the
\* one entry to `to`, and edges() then lists the former pairs without
\* (from, to).
C17_RemoveEdgeFrame ==
    \A from \in DOMAIN graph : \A p \in 1..Len(graph[from].edges) :
       LET to == graph[from].edges[p].toVertex
           r == removeEdge(graph, from, to)
       IN  /\ r.thrown = NoThrow
           /\ DOMAIN r.graph = DOMAIN graph
           /\ \A i \in DOMAIN graph : r.graph[i].vinfo = graph[i].vinfo
           /\ \A i \in DOMAIN graph \ {from} : r.graph[i].edges = graph[i].edges
           /\ r.graph[from].edges = RemoveAt(graph[from].edges, p)
           /\ {edges(r.graph)[n] : n \in 1..Len(edges(r.graph))}
                 = {edges(graph)[n] : n \in 1..Len(edges(graph))} \ {<<from, to>>}
           /\ Len(edges(r.graph)) = Len(edges(graph)) - 1

C17_Witness ==
    /\ call = "removeEdge" /\ thrown = NoThrow /\ ~terminated
    /\ \E i \in DOMAIN graph :
          Len(graph[i].edges) = 2 /\ graph[i].edges[1].einfo # graph[i].edges[2].einfo

\* C18: in every state of a HashSet reached by calls of add, resizes
\* included, contains(x) is true for every element x add was called with
\* and false for every other element.
C18_ContainsExactlyAdded ==
    \A x \in Elements : contains(hashTable, capacity, x) <=> x \in added

\* C19: a call of add with an element add was called with before changes
\* neither sz nor capacity nor any cell of the table, and sz is always the
\* number of different elements add was called with.
C19_RepeatedAddNoEffect ==
    [][/\ (call' = "HashSet::add" /\ added' = added)
          => UNCHANGED <<hashTable, sz, capacity>>
       /\ sz = Cardinality(added)
       /\ sz' = Cardinality(added')]_vars

\* C20: whenever add has returned, size() / capacity is at most 0.8, that
\* is 5 * sz <= 4 * capacity; a table of 10 cells never holds 9 elements.
C20_LoadAtMostLimit ==
    call = "HashSet::add" =>
       /\ ~exceedsLoad(loadFactor(size(this), capacity))
       /\ ~(capacity = DEFAULT_CAPACITY /\ size(this) = 9)

\* C21: in every state of a HashSet and for every index at or beyond its
\* capacity, elementsAtIndex returns 0 and isElementAtIndex can only return
\* false, and neither reads a cell outside 0 .. capacity - 1.
C21_IndexBeyondCapacity ==
    \A index \in Indices : index >= capacity =>
       /\ elementsAtIndex(this, index).result = 0
       /\ elementsAtIndex(this, index).reads \subseteq 0..(capacity - 1)
       /\ \A element \in IndexElements :
             /\ isElementAtIndex(this, element, index).results = {FALSE}
             /\ isElementAtIndex(this, element, index).reads \subseteq 0..(capacity - 1)

\* C22: every extraction from the priority queue of findShortestPaths takes
\* an entry whose distance is less than or equal to the distance of every
\* entry in the queue at that moment.
C22_ExtractsLeastDistance ==
    [][(pc = "loop" /\ Len(pq') < Len(pq))
       => \E i \in 1..Len(pq) :
             /\ pq' = RemoveAt(pq, i)
             /\ pq[i].second = vertex'
             /\ \A k \in 1..Len(pq) : pq[i].first <= pq[k].first]_vars

\* C23: during a call of findShortestPaths (all weights being non-negative)
\* no relaxation changes the stored distance or the predecessor of a vertex
\* already marked in kv.
C23_SettledNeverRevised ==
    [][(call = "findShortestPaths" /\ pc = "edges")
       => \A v \in DOMAIN pv :
             (InRange(kv, v) /\ kv[v] = TRUE) => (dv'[v] = dv[v] /\ pv'[v] = pv[v])]_vars

NoKeyTwice(tr) == \A m \in 1..Len(tr) : \A n \in 1..Len(tr) : tr[m] = tr[n] => m = n

\* C24: depthFirst terminates on every graph, cycles and self-loops
\* included: every activation that has started returns, the only steps
\* that change the tracker append a vertex key that is not yet in it (a
\* recorded vertex is not expanded again), and no key is in the tracker twice.
C24_TraversalTerminates ==
    /\ [](NoKeyTwice(tracker))
    /\ [][pc = "dfs" /\ tracker' # tracker
            => \E k \in DOMAIN graph :
                  /\ ~ visited(tracker, k)
                  /\ tracker' = Append(tracker, k)
                  /\ stack'[Len(stack')].es = graph[k].edges]_vars
    /\ [][pc = "dfs" /\ Len(stack') > Len(stack) => tracker' = tracker]_vars
    /\ ((pc = "dfs" /\ stack # <<>>) ~> (pc = "dfs" /\ stack = <<>>))

\* a traversal has returned on a graph with a self-loop and a cycle through
\* another vertex
C24_Witness ==
    /\ pc = "dfs" /\ stack = <<>>
    /\ \E u \in DOMAIN graph : \E w \in DOMAIN graph \ {u} :
          /\ HasEdge(graph, u, u) /\ HasEdge(graph, u, w) /\ HasEdge(graph, w, u)
          /\ tracker = <<u, w>>

\* C25: once the main loop of findShortestPaths has been entered, its test
\* eventually finds the queue empty; a vertex is marked known, and its edge
\* list entered, only while it is not yet known, and no mark is withdrawn;
\* and an entry is pushed only for a vertex whose stored distance has just
\* become strictly smaller.
C25_MainLoopTerminates ==
    /\ ((call = "findShortestPaths" /\ pc \in {"loop", "edges"})
           ~> (pc = "loop" /\ pq = <<>>))
    /\ [][(call = "findShortestPaths" /\ pc \in {"loop", "edges"})
            => /\ \A v \in DOMAIN kv : kv[v] = TRUE => kv'[v] = TRUE
               /\ (pc = "loop" /\ pc' = "edges") => (kv[vertex'] = FALSE /\ kv'[vertex'] = TRUE)
               /\ Len(pq') > Len(pq)
                     => \E w \in DOMAIN dv :
                           /\ dv'[w] < dv[w]
                           /\ pq' = Append(pq, [first |-> dv'[w], second |-> w])]_vars

\* C27: no call of removeVertex or removeEdge increments an iterator that
\* is at the end of an edge list: whatever the graph and the arguments, the
\* loop that erases a matching last element does not step past end().
C27_NoIncrementPastEnd ==
    /\ \A from \in StoreKeys : \A to \in StoreKeys : ~ removeEdge(graph, from, to).ub
    /\ \A v \in StoreKeys : ~ removeVertex(graph, v).ub

\* C28: when the edge vertex -> w is relaxed, the distance stored for w is
\* exactly dv[vertex] plus the edge's weight, with no fraction lost, also for
\* weights that are an odd number of halves.
C28_RelaxationStoresExactSum ==
    [][(call = "findShortestPaths" /\ pc = "edges" /\ dv' # dv)
       => LET e == graph[vertex].edges[j]
          IN  plus(dv[vertex], edgeWeightFunc(e.einfo))
                 = [whole |-> dv'[e.toVertex], half |-> 0]]_vars

(* What the claims speak of in a tree *)

RECURSIVE Balanced(_)
Balanced(node_) ==
    \/ node_ = nullptr
    \/ /\ height_(node_.left) - height_(node_.right) \in {-1, 0, 1}
       /\ Balanced(node_.left)
       /\ Balanced(node_.right)

RECURSIVE NodeCount(_)
NodeCount(node_) ==
    IF node_ = nullptr THEN 0 ELSE 1 + NodeCount(node_.left) + NodeCount(node_.right)

\* C26: in an AVLSet constructed with balancing on, after any sequence of
\* add calls that returned, the heights of the two subtrees of every node
\* differ by at most one.
C26_BalancedAfterAdds ==
    (avlSet.isBalancing /\ ~avlSet.freed) => Balanced(avlSet.root)

\* six elements have been added with balancing on, and adding some further
\* element without rotations would leave a node out of balance
C26_Witness ==
    /\ avlSet.isBalancing /\ ~avlSet.freed
    /\ call = "AVLSet::add"
    /\ avlSet.sz = 6
    /\ \E element \in AvlElements \ avlAdded :
          ~ Balanced(insert(avlSet.root, element, FALSE, FALSE).node)

\* C29: with balancing on or off, after any sequence of add calls that
\* returned, inorder visits exactly the elements added, each once and in
\* ascending order, contains answers TRUE for exactly those elements, and
\* size is their number.
C29_SearchTreeOfAdded ==
    ~avlSet.freed =>
       /\ inorder(avlSet) = KeysInOrder(avlAdded)
       /\ \A element \in AvlElements : avlContains(avlSet, element) <=> element \in avlAdded
       /\ avlSize(avlSet) = Cardinality(avlAdded)

\* inorder has been called on a balancing set holding every element
C29_Witness ==
    /\ avlSet.isBalancing /\ ~avlSet.freed
    /\ call = "AVLSet::inorder"
    /\ avlAdded = AvlElements
    /\ height_(avlSet.root) = 2

\* C30: for every AVLSet object, one that a move has just taken from
\* included, size() is the number of nodes reachable from root.
C30_SizeIsNodeCount ==
    /\ ~avlSet.freed => avlSize(avlSet) = NodeCount(avlSet.root)
    /\ ~avlOther.freed => avlSize(avlOther) = NodeCount(avlOther.root)

====
